---- MODULE Spec2Model ----
(***************************************************************************)
(* Model of the lazy, starvation-free priority queue of sfpriorityq        *)
(* (src/src/priorityq.c, src/include/priorityq.h).                         *)
(*                                                                         *)
(* The queue is a record q of the fields of priorityq_t; its intrusive     *)
(* lists are sequences of item identifiers in list order.  The items are   *)
(* a function item from identifiers to the fields of priority_t; the two   *)
(* link pointers of an item are summarised by the field linked, which is   *)
(* TRUE exactly when node.next is not NULL.                                *)
(***************************************************************************)
EXTENDS Integers, Sequences, FiniteSets, TLC

VARIABLES
    q,          \* the priorityq_t
    item,       \* the priority_t records, by identifier
    pos,        \* position of the caller: "idle" or inside the loop of dequeue
    ret,        \* the value returned by the last completed dequeue call
    clz_zero,   \* what __builtin_clz(0) evaluates to in this build
    active,     \* history: items enqueued and not since dequeued or removed
    h           \* state of the driving program (test harness), if any

vars == <<q, item, pos, ret, clz_zero, active, h>>

-----------------------------------------------------------------------------
(* Program constants *)

PRIORITY_URGENT == 128
PQ_CEILING == 128
PQ_BINS == 8
PQ_MASK == PQ_CEILING - 1

PRIORITY_LOC_NONE == 0
PRIORITY_LOC_DONE == 1
PRIORITY_LOC_IMED == 2
PRIORITY_LOC_Q == 3

\* The null pointer; item identifiers are positive.
NULL == 0

\* What list_dq_quick hands back on an empty list: the list head itself.
SENTINEL == -1

-----------------------------------------------------------------------------
(* Bounds of the model *)

\* Number of items the free-running caller owns.
NumItems == 2

\* Number of entries of PriorityList the free-running caller uses.
NumPriorities == 3

\* Number of calls of enqueue, dequeue and remove the free-running caller makes.
MaxCalls == 6

\* How far a size counter may drift from the length of its list before the
\* free-running caller stops adding to the drift.
MaxDrift == 1

\* Priorities the free-running caller passes to priority_set, most
\* interesting first: urgent, immediate, and values whose sums cross 255
\* while the counter stays on few values.
PriorityList == <<128, 0, 96, 32, 64, 16>>

Priorities == {PriorityList[k] : k \in 1..NumPriorities}

-----------------------------------------------------------------------------
(* 8-bit arithmetic *)

Bit(n, k) == (n \div (2 ^ k)) % 2

And8(a, b) ==
    LET f(k) == IF Bit(a, k) = 1 /\ Bit(b, k) = 1 THEN 2 ^ k ELSE 0
    IN f(0) + f(1) + f(2) + f(3) + f(4) + f(5) + f(6) + f(7)

Or8(a, b) ==
    LET f(k) == IF Bit(a, k) = 1 \/ Bit(b, k) = 1 THEN 2 ^ k ELSE 0
    IN f(0) + f(1) + f(2) + f(3) + f(4) + f(5) + f(6) + f(7)

Xor8(a, b) ==
    LET f(k) == IF Bit(a, k) # Bit(b, k) THEN 2 ^ k ELSE 0
    IN f(0) + f(1) + f(2) + f(3) + f(4) + f(5) + f(6) + f(7)

Not8(a) == 255 - a

\* The builds of get_high_index32: the BSR instruction leaves the zero operand
\* in place (31 - clz is 0), LZCNT and CLZ count 32 leading zeros.
ClzZeroOutcomes == {31, 32}

\* A uint32_t field holds its value modulo 2^32.  Values below 2^31 are
\* written as themselves and a value v from 2^31 up as v - 2^32, so that 0 - 1
\* is written -1 and stands for 4294967295.  Addition and subtraction of small
\* amounts are then the integer ones.
U32Wrapped(x) == x < 0

\* The unsigned comparison a < b.
U32Lt(a, b) ==
    IF U32Wrapped(a) = U32Wrapped(b) THEN a < b ELSE U32Wrapped(b)

\* __builtin_clz on a 32-bit value; undefined for 0.
builtin_clz(x) ==
    IF x = 0 THEN clz_zero
    ELSE IF U32Wrapped(x) THEN 0
    ELSE 31 - (CHOOSE k \in 0..30 : 2 ^ k <= x /\ (k = 30 \/ x < 2 ^ (k + 1)))

get_high_index32(x) == 31 - builtin_clz(x)

-----------------------------------------------------------------------------
(* Nodes and lists.  A world w is a record [q |-> queue, p |-> items].     *)

Without(s, n) == SelectSeq(s, LAMBDA e : e # n)

node_in_list(p, n) == p[n].linked

SetLinked(p, n, v) == IF n \in DOMAIN p THEN [p EXCEPT ![n].linked = v] ELSE p

SetLoc(p, n, v) == IF n \in DOMAIN p THEN [p EXCEPT ![n].loc = v] ELSE p

\* An unlink that leaves n in the list it is in.
node_unlink_only_keeps(w, n) == w

\* Takes n out of the list it is in; the links of n keep their old values.
node_unlink_only(w, n) ==
    [w EXCEPT !.q.done = Without(@, n),
              !.q.immediate = Without(@, n),
              !.q.processing = Without(@, n),
              !.q.bins = [i \in 0..(PQ_BINS - 1) |-> Without(@[i], n)]]

node_unlink(w, n) ==
    LET w1 == node_unlink_only(w, n)
    IN [w1 EXCEPT !.p = SetLinked(@, n, FALSE)]

list_has(l) == l # <<>>

list_count(l) == Len(l)

\* The node list_dq_quick unlinks: the first one, or the head of an empty list.
list_dq_quick(l) == IF l = <<>> THEN SENTINEL ELSE Head(l)

Rest(l) == IF l = <<>> THEN l ELSE Tail(l)

\* q->bins + index: bins is preceded in priorityq_t by processing, so index -1
\* addresses the processing list.
list_nq_bin(w, index, n) ==
    IF index = -1
    THEN [w EXCEPT !.q.processing = Append(@, n), !.p = SetLinked(@, n, TRUE)]
    ELSE [w EXCEPT !.q.bins[index] = Append(@, n), !.p = SetLinked(@, n, TRUE)]

\* An enqueue into done that links the node at the head of the list.
list_nq_done_at_head(w, n) ==
    [w EXCEPT !.q.done = <<n>> \o @, !.p = SetLinked(@, n, TRUE)]

list_nq_done(w, n) ==
    [w EXCEPT !.q.done = Append(@, n), !.p = SetLinked(@, n, TRUE)]

list_nq_immediate(w, n) ==
    [w EXCEPT !.q.immediate = Append(@, n), !.p = SetLinked(@, n, TRUE)]

-----------------------------------------------------------------------------
(* Items *)

priority_init == [abs |-> 0, rel |-> 0, loc |-> PRIORITY_LOC_NONE,
                  urg |-> 0, linked |-> FALSE]

priority_set(p, n, priority) ==
    IF priority # PRIORITY_URGENT
    THEN [p EXCEPT ![n].abs = priority, ![n].urg = 0]
    ELSE [p EXCEPT ![n].abs = 0, ![n].urg = 1]

priority_is_active(n) == node_in_list(item, n)

-----------------------------------------------------------------------------
(* Queue internals *)

priorityq_init ==
    [pc |-> 0, counter_imed |-> 0, size |-> 0, size_done |-> 0,
     size_imed |-> 0, size_q |-> 0,
     done |-> <<>>, immediate |-> <<>>, processing |-> <<>>,
     bins |-> [i \in 0..(PQ_BINS - 1) |-> <<>>]]

priorityq_decrement_queue(w, n) ==
    LET loc == w.p[n].loc
    IN IF loc = PRIORITY_LOC_DONE THEN [w EXCEPT !.q.size_done = @ - 1]
       ELSE IF loc = PRIORITY_LOC_IMED THEN [w EXCEPT !.q.size_imed = @ - 1]
       ELSE [w EXCEPT !.q.size_q = @ - 1]

\* The value priorityq_nq_only passes to get_high_index32.
nq_value(pc, rp) ==
    LET nrp == (rp + 255) % 256
    IN IF nrp >= pc THEN Xor8(rp, pc) ELSE And8(rp, pc)

nq_index(pc, rp) == get_high_index32(nq_value(pc, rp))

priorityq_nq_only(w, n) ==
    list_nq_bin(w, nq_index(w.q.pc, w.p[n].rel), n)

\* A scan that stops at the highest bin that qualifies instead of the lowest.
advance_index_from_top(qq) ==
    LET ok(i) == list_has(qq.bins[i]) /\ Bit(qq.pc, i) = 0
    IN IF \E i \in 0..(PQ_BINS - 2) : ok(i)
       THEN CHOOSE i \in 0..(PQ_BINS - 2) :
                ok(i) /\ \A j \in (i + 1)..(PQ_BINS - 2) : ~ok(j)
       ELSE PQ_BINS - 1

\* The bin the scan of priorityq_advance_priority_counter stops at.
advance_index(qq) ==
    LET ok(i) == list_has(qq.bins[i]) /\ Bit(qq.pc, i) = 0
    IN IF \E i \in 0..(PQ_BINS - 2) : ok(i)
       THEN CHOOSE i \in 0..(PQ_BINS - 2) : ok(i) /\ \A j \in 0..(i - 1) : ~ok(j)
       ELSE PQ_BINS - 1

\* A counter step that also fills the bit of the bin it stopped at.
advance_newpc_past_bin(pc, index) == (Or8(pc, (2 ^ (index + 1)) - 1) + 1) % 256

\* A counter step that goes on to the next multiple of PQ_CEILING.
advance_newpc_to_ceiling(pc, index) == (Or8(pc, PQ_MASK) + 1) % 256

\* A counter step of one.
advance_newpc_by_one(pc, index) == (pc + 1) % 256

advance_newpc(pc, index) == (Or8(pc, (2 ^ index) - 1) + 1) % 256

\* A mask that has the bit of every bin set.
advance_bits_all(pc, newpc) == 2 * PQ_CEILING - 1

advance_bits(pc, newpc) ==
    Or8(And8(128, Xor8(pc, newpc)), And8(PQ_MASK, And8(Not8(pc), newpc)))

\* list_append(&q->processing, q->bins + i) for every i of fired, ascending.
RECURSIVE splice_bins(_, _, _)
splice_bins(qq, i, fired) ==
    IF i >= PQ_BINS THEN qq
    ELSE IF i \in fired
         THEN splice_bins([qq EXCEPT !.processing = @ \o qq.bins[i],
                                     !.bins[i] = <<>>], i + 1, fired)
         ELSE splice_bins(qq, i + 1, fired)

\* A counter advance that fires the bins but leaves q->pc as it was.
advance_priority_counter_keeps_pc(w) ==
    LET pc == w.q.pc
        index == advance_index(w.q)
        newpc == advance_newpc(pc, index)
        bits == advance_bits(pc, newpc)
        fired == {index} \cup {j \in (index + 1)..(PQ_BINS - 1) : Bit(bits, j) = 1}
    IN [w EXCEPT !.q = splice_bins(w.q, 0, fired)]

priorityq_advance_priority_counter(w) ==
    LET pc == w.q.pc
        index == advance_index(w.q)
        newpc == advance_newpc(pc, index)
        bits == advance_bits(pc, newpc)
        fired == {index} \cup {j \in (index + 1)..(PQ_BINS - 1) : Bit(bits, j) = 1}
        q1 == splice_bins(w.q, 0, fired)
    IN [w EXCEPT !.q = [q1 EXCEPT !.pc = newpc]]

\* A transfer that takes the last node of immediate instead of the first.
imed_to_done_takes_last(w) ==
    LET l == w.q.immediate
        n == IF l = <<>> THEN SENTINEL ELSE l[Len(l)]
        w1 == [w EXCEPT !.q.immediate = IF l = <<>> THEN l ELSE SubSeq(l, 1, Len(l) - 1)]
        w2 == list_nq_done(w1, n)
    IN [w2 EXCEPT !.q.size_imed = @ - 1, !.q.size_done = @ + 1]

\* A transfer that links the node at the head of done instead of its tail.
imed_to_done_at_head(w) ==
    LET n == list_dq_quick(w.q.immediate)
        w1 == [w EXCEPT !.q.immediate = Rest(@)]
        w2 == [w1 EXCEPT !.q.done = <<n>> \o @, !.p = SetLinked(@, n, TRUE)]
    IN [w2 EXCEPT !.q.size_imed = @ - 1, !.q.size_done = @ + 1]

\* One transfer list_nq(&q->done, list_dq_quick(&q->immediate)).
imed_to_done(w) ==
    LET n == list_dq_quick(w.q.immediate)
        w1 == [w EXCEPT !.q.immediate = Rest(@)]
        w2 == list_nq_done(w1, n)
    IN [w2 EXCEPT !.q.size_imed = @ - 1, !.q.size_done = @ + 1]

priorityq_advance_immediates(w) ==
    IF w.q.size_imed # 0
    THEN IF w.q.counter_imed # 0
         THEN LET w1 == imed_to_done(w)
              IN IF U32Lt(w1.q.size_done, w1.q.size_imed)
                 THEN IF w1.q.size_imed % 2 = 0
                      THEN [imed_to_done(w1) EXCEPT
                               !.q.counter_imed = @ \div 2]
                      ELSE [w1 EXCEPT !.q.counter_imed = @ - 1]
                 ELSE [w1 EXCEPT !.q.counter_imed = @ \div 4]
         ELSE [w EXCEPT !.q.counter_imed = get_high_index32(w.q.size_imed) + 1]
    ELSE w

\* A drain that moves every item to immediate, whatever its rel.
drain_one_all_immediate(w) ==
    LET n == list_dq_quick(w.q.processing)
        w1 == [w EXCEPT !.q.processing = Rest(@)]
        w2 == [w1 EXCEPT !.p = SetLoc(@, n, PRIORITY_LOC_IMED),
                         !.q.size_q = @ - 1,
                         !.q.size_imed = @ + 1]
    IN list_nq_immediate(w2, n)

\* A drain that places every item into a bin again, also when the counter
\* has reached its rel.
drain_one_always_bins(w) ==
    LET n == list_dq_quick(w.q.processing)
        w1 == [w EXCEPT !.q.processing = Rest(@)]
    IN priorityq_nq_only(w1, n)

\* A drain that moves an item to immediate without decrementing size_q.
drain_one_keeps_size_q(w) ==
    LET n == list_dq_quick(w.q.processing)
        w1 == [w EXCEPT !.q.processing = Rest(@)]
    IN IF w1.p[n].rel # w1.q.pc
       THEN priorityq_nq_only(w1, n)
       ELSE LET w2 == [w1 EXCEPT !.p = SetLoc(@, n, PRIORITY_LOC_IMED),
                                 !.q.size_imed = @ + 1]
            IN list_nq_immediate(w2, n)

\* The body of the do/while of priorityq_advance_priority_queue.
drain_one(w) ==
    LET n == list_dq_quick(w.q.processing)
        w1 == [w EXCEPT !.q.processing = Rest(@)]
    IN IF w1.p[n].rel # w1.q.pc
       THEN priorityq_nq_only(w1, n)
       ELSE LET w2 == [w1 EXCEPT !.p = SetLoc(@, n, PRIORITY_LOC_IMED),
                                 !.q.size_q = @ - 1,
                                 !.q.size_imed = @ + 1]
            IN list_nq_immediate(w2, n)

\* A do/while that goes on until processing is empty, whatever limit_q is.
RECURSIVE drain_loop_unlimited(_, _)
drain_loop_unlimited(w, limit_q) ==
    LET w1 == drain_one(w)
    IN IF list_has(w1.q.processing)
       THEN drain_loop_unlimited(w1, limit_q)
       ELSE w1

RECURSIVE drain_loop(_, _)
drain_loop(w, limit_q) ==
    LET w1 == drain_one(w)
        lim == limit_q - 1
    IN IF lim # 0 /\ list_has(w1.q.processing)
       THEN drain_loop(w1, lim)
       ELSE w1

\* The values the calls of priorityq_nq_only in the do/while pass to
\* get_high_index32.
RECURSIVE drain_values(_, _)
drain_values(w, limit_q) ==
    LET n == list_dq_quick(w.q.processing)
        v == IF w.p[n].rel # w.q.pc THEN {nq_value(w.q.pc, w.p[n].rel)} ELSE {}
        w1 == drain_one(w)
        lim == limit_q - 1
    IN IF lim # 0 /\ list_has(w1.q.processing)
       THEN v \cup drain_values(w1, lim)
       ELSE v

\* An advance that moves the counter also when size_q is 0.
advance_priority_queue_unguarded(w) ==
    IF w.q.size_q # 0 /\ list_has(w.q.processing)
    THEN drain_loop(w, get_high_index32(w.q.size_q) + 1)
    ELSE priorityq_advance_priority_counter(w)

priorityq_advance_priority_queue(w) ==
    IF w.q.size_q # 0
    THEN IF list_has(w.q.processing)
         THEN drain_loop(w, get_high_index32(w.q.size_q) + 1)
         ELSE priorityq_advance_priority_counter(w)
    ELSE w

-----------------------------------------------------------------------------
(* Queue operations *)

\* An enqueue that re-places a queued item whenever it is not in immediate,
\* without comparing the new priority with the remaining distance.
priorityq_enqueue_reinserts(w, n) ==
    LET pn == w.p[n]
        fresh(v) ==
            LET a == v.p[n].abs
                v1 == IF a # 0
                      THEN priorityq_nq_only(
                             [v EXCEPT !.p[n].rel = (a + v.q.pc) % 256,
                                       !.p[n].loc = PRIORITY_LOC_Q,
                                       !.q.size_q = @ + 1], n)
                      ELSE IF v.p[n].urg # 0
                      THEN list_nq_done(
                             [v EXCEPT !.p[n].rel = v.q.pc,
                                       !.p[n].loc = PRIORITY_LOC_DONE,
                                       !.q.size_done = @ + 1], n)
                      ELSE list_nq_immediate(
                             [v EXCEPT !.p[n].rel = v.q.pc,
                                       !.p[n].loc = PRIORITY_LOC_IMED,
                                       !.q.size_imed = @ + 1], n)
            IN [v1 EXCEPT !.q.size = @ + 1]
    IN IF pn.loc = PRIORITY_LOC_DONE THEN w
       ELSE IF node_in_list(w.p, n)
       THEN IF pn.urg # 0
            THEN LET w1 == list_nq_done(node_unlink_only(w, n), n)
                     w2 == IF pn.loc = PRIORITY_LOC_IMED
                           THEN [w1 EXCEPT !.q.size_imed = @ - 1]
                           ELSE [w1 EXCEPT !.q.size_q = @ - 1]
                 IN [w2 EXCEPT !.q.size_done = @ + 1,
                               !.p[n].loc = PRIORITY_LOC_DONE]
            ELSE IF pn.loc = PRIORITY_LOC_IMED
            THEN w
            ELSE LET w1 == node_unlink_only(w, n)
                 IN fresh([w1 EXCEPT !.q.size_q = @ - 1, !.q.size = @ - 1])
       ELSE fresh(w)

\* An enqueue that counts an item bumped to urgent as one more item.
priorityq_enqueue_bump_grows(w, n) ==
    LET pn == w.p[n]
        fresh(v) ==
            LET a == v.p[n].abs
                v1 == IF a # 0
                      THEN priorityq_nq_only(
                             [v EXCEPT !.p[n].rel = (a + v.q.pc) % 256,
                                       !.p[n].loc = PRIORITY_LOC_Q,
                                       !.q.size_q = @ + 1], n)
                      ELSE IF v.p[n].urg # 0
                      THEN list_nq_done(
                             [v EXCEPT !.p[n].rel = v.q.pc,
                                       !.p[n].loc = PRIORITY_LOC_DONE,
                                       !.q.size_done = @ + 1], n)
                      ELSE list_nq_immediate(
                             [v EXCEPT !.p[n].rel = v.q.pc,
                                       !.p[n].loc = PRIORITY_LOC_IMED,
                                       !.q.size_imed = @ + 1], n)
            IN [v1 EXCEPT !.q.size = @ + 1]
    IN IF pn.loc = PRIORITY_LOC_DONE THEN w
       ELSE IF node_in_list(w.p, n)
       THEN IF pn.urg # 0
            THEN LET w1 == list_nq_done(node_unlink_only(w, n), n)
                     w2 == IF pn.loc = PRIORITY_LOC_IMED
                           THEN [w1 EXCEPT !.q.size_imed = @ - 1]
                           ELSE [w1 EXCEPT !.q.size_q = @ - 1]
                 IN [w2 EXCEPT !.q.size_done = @ + 1, !.q.size = @ + 1,
                               !.p[n].loc = PRIORITY_LOC_DONE]
            ELSE IF pn.loc = PRIORITY_LOC_IMED \/ pn.abs >= pn.rel - w.q.pc
            THEN w
            ELSE LET w1 == node_unlink_only(w, n)
                 IN fresh([w1 EXCEPT !.q.size_q = @ - 1, !.q.size = @ - 1])
       ELSE fresh(w)

\* An enqueue that re-places a queued item whose new priority equals its
\* remaining distance.
priorityq_enqueue_strict(w, n) ==
    LET pn == w.p[n]
        fresh(v) ==
            LET a == v.p[n].abs
                v1 == IF a # 0
                      THEN priorityq_nq_only(
                             [v EXCEPT !.p[n].rel = (a + v.q.pc) % 256,
                                       !.p[n].loc = PRIORITY_LOC_Q,
                                       !.q.size_q = @ + 1], n)
                      ELSE IF v.p[n].urg # 0
                      THEN list_nq_done(
                             [v EXCEPT !.p[n].rel = v.q.pc,
                                       !.p[n].loc = PRIORITY_LOC_DONE,
                                       !.q.size_done = @ + 1], n)
                      ELSE list_nq_immediate(
                             [v EXCEPT !.p[n].rel = v.q.pc,
                                       !.p[n].loc = PRIORITY_LOC_IMED,
                                       !.q.size_imed = @ + 1], n)
            IN [v1 EXCEPT !.q.size = @ + 1]
    IN IF pn.loc = PRIORITY_LOC_DONE THEN w
       ELSE IF node_in_list(w.p, n)
       THEN IF pn.urg # 0
            THEN LET w1 == list_nq_done(node_unlink_only(w, n), n)
                     w2 == IF pn.loc = PRIORITY_LOC_IMED
                           THEN [w1 EXCEPT !.q.size_imed = @ - 1]
                           ELSE [w1 EXCEPT !.q.size_q = @ - 1]
                 IN [w2 EXCEPT !.q.size_done = @ + 1,
                               !.p[n].loc = PRIORITY_LOC_DONE]
            ELSE IF pn.loc = PRIORITY_LOC_IMED \/ pn.abs > pn.rel - w.q.pc
            THEN w
            ELSE LET w1 == node_unlink_only(w, n)
                 IN fresh([w1 EXCEPT !.q.size_q = @ - 1, !.q.size = @ - 1])
       ELSE fresh(w)

\* priorityq_enqueue on item n, as set by priority_set.
priorityq_enqueue(w, n) ==
    LET pn == w.p[n]
        fresh(v) ==
            LET a == v.p[n].abs
                v1 == IF a # 0
                      THEN priorityq_nq_only(
                             [v EXCEPT !.p[n].rel = (a + v.q.pc) % 256,
                                       !.p[n].loc = PRIORITY_LOC_Q,
                                       !.q.size_q = @ + 1], n)
                      ELSE IF v.p[n].urg # 0
                      THEN list_nq_done(
                             [v EXCEPT !.p[n].rel = v.q.pc,
                                       !.p[n].loc = PRIORITY_LOC_DONE,
                                       !.q.size_done = @ + 1], n)
                      ELSE list_nq_immediate(
                             [v EXCEPT !.p[n].rel = v.q.pc,
                                       !.p[n].loc = PRIORITY_LOC_IMED,
                                       !.q.size_imed = @ + 1], n)
            IN [v1 EXCEPT !.q.size = @ + 1]
    IN IF pn.loc = PRIORITY_LOC_DONE THEN w
       ELSE IF node_in_list(w.p, n)
       THEN IF pn.urg # 0
            THEN LET w1 == list_nq_done(node_unlink_only(w, n), n)
                     w2 == IF pn.loc = PRIORITY_LOC_IMED
                           THEN [w1 EXCEPT !.q.size_imed = @ - 1]
                           ELSE [w1 EXCEPT !.q.size_q = @ - 1]
                 IN [w2 EXCEPT !.q.size_done = @ + 1,
                               !.p[n].loc = PRIORITY_LOC_DONE]
            ELSE IF pn.loc = PRIORITY_LOC_IMED \/ pn.abs >= pn.rel - w.q.pc
            THEN w
            ELSE LET w1 == node_unlink_only(w, n)
                 IN fresh([w1 EXCEPT !.q.size_q = @ - 1, !.q.size = @ - 1])
       ELSE fresh(w)

\* list_dq(&q->done): the node taken, or NULL.
list_dq_done(w) == IF w.q.done = <<>> THEN NULL ELSE Head(w.q.done)

\* One pass of the do/while of priorityq_dequeue, up to the test of n.
dequeue_pass(w) ==
    priorityq_advance_priority_queue(priorityq_advance_immediates(w))

\* The values one pass of the do/while of priorityq_dequeue passes to
\* get_high_index32.
pass_values(w) ==
    LET w0 == priorityq_advance_immediates(w)
    IN IF w0.q.size_q # 0 /\ list_has(w0.q.processing)
       THEN drain_values(w0, get_high_index32(w0.q.size_q) + 1)
       ELSE {}

\* A dequeue that unlinks the node from done without clearing its links.
dequeue_finish_keeps_links(w, n) ==
    LET w1 == [w EXCEPT !.q.done = Rest(@)]
        w2 == [w1 EXCEPT !.q.size_done = @ - 1, !.q.size = @ - 1]
    IN [w2 EXCEPT !.p = SetLoc(@, n, PRIORITY_LOC_NONE)]

\* The statements after the loop, for the node n taken from done.
dequeue_finish(w, n) ==
    LET w1 == [w EXCEPT !.q.done = Rest(@), !.p = SetLinked(@, n, FALSE)]
        w2 == [w1 EXCEPT !.q.size_done = @ - 1, !.q.size = @ - 1]
    IN [w2 EXCEPT !.p = SetLoc(@, n, PRIORITY_LOC_NONE)]

\* A remove that does not test whether the item is in a list.
priorityq_remove_unguarded(w, n) ==
    LET w1 == priorityq_decrement_queue(node_unlink(w, n), n)
    IN [w1 EXCEPT !.q.size = @ - 1, !.p[n].loc = PRIORITY_LOC_NONE]

priorityq_remove(w, n) ==
    IF node_in_list(w.p, n)
    THEN LET w1 == priorityq_decrement_queue(node_unlink(w, n), n)
         IN [w1 EXCEPT !.q.size = @ - 1, !.p[n].loc = PRIORITY_LOC_NONE]
    ELSE w

-----------------------------------------------------------------------------
(* The free-running caller: any sequence of enqueue, dequeue and remove.   *)

World == [q |-> q, p |-> item]

Items == 1..NumItems

\* The guard that keeps the size counters, which no operation bounds, finite.
WithinDrift(qq) ==
    /\ qq.size_done <= list_count(qq.done) + MaxDrift
    /\ qq.size_imed >= list_count(qq.immediate) - MaxDrift

Init ==
    /\ q = priorityq_init
    /\ item = [n \in Items |-> priority_init]
    /\ pos = "idle"
    /\ ret = NULL
    /\ clz_zero \in ClzZeroOutcomes
    /\ active = {}
    /\ h = [kind |-> "free", calls |-> 0]

\* priority_set(n, priority) followed by priorityq_enqueue(q, n).
Enqueue(n, priority) ==
    /\ pos = "idle"
    /\ h.calls < MaxCalls
    /\ LET w == priorityq_enqueue([q |-> q, p |-> priority_set(item, n, priority)], n)
       IN /\ WithinDrift(w.q)
          /\ q' = w.q
          /\ item' = w.p
    /\ active' = active \cup {n}
    /\ h' = [h EXCEPT !.calls = @ + 1]
    /\ UNCHANGED <<pos, ret, clz_zero>>

Remove(n) ==
    /\ pos = "idle"
    /\ h.calls < MaxCalls
    /\ LET w == priorityq_remove(World, n)
       IN /\ WithinDrift(w.q)
          /\ q' = w.q
          /\ item' = w.p
    /\ active' = active \ {n}
    /\ h' = [h EXCEPT !.calls = @ + 1]
    /\ UNCHANGED <<pos, ret, clz_zero>>

\* Entry of priorityq_dequeue: the test of q->size.
DequeueCall ==
    /\ pos = "idle"
    /\ h.calls < MaxCalls
    /\ IF q.size # 0
       THEN pos' = "loop" /\ UNCHANGED ret
       ELSE pos' = "idle" /\ ret' = NULL
    /\ h' = [h EXCEPT !.calls = @ + 1]
    /\ UNCHANGED <<q, item, clz_zero, active>>

\* A list head has been linked into a list as if it were an item: the memory
\* of the queue is corrupted and the program's behaviour is no longer defined.
Corrupted(qq) == \E k \in 1..Len(qq.done) : qq.done[k] = SENTINEL

\* One pass of the do/while; when a node came off done, the return.  The model
\* follows the program up to the first corruption of memory and stops there.
DequeuePass ==
    /\ pos = "loop"
    /\ LET w == dequeue_pass(World)
           n == list_dq_done(w)
       IN IF Corrupted(w.q)
          THEN /\ q' = w.q
               /\ item' = w.p
               /\ pos' = "corrupt"
               /\ UNCHANGED <<ret, active>>
          ELSE IF n # NULL
          THEN LET w1 == dequeue_finish(w, n)
               IN /\ q' = w1.q
                  /\ item' = w1.p
                  /\ pos' = "idle"
                  /\ ret' = n
                  /\ active' = active \ {n}
          ELSE /\ q' = w.q
               /\ item' = w.p
               /\ UNCHANGED <<pos, ret, active>>
    /\ UNCHANGED <<clz_zero, h>>

Next ==
    \/ \E n \in Items, priority \in Priorities : Enqueue(n, priority)
    \/ \E n \in Items : Remove(n)
    \/ DequeueCall
    \/ DequeuePass

Spec == Init /\ [][Next]_vars

-----------------------------------------------------------------------------
(* The caller of the starvation claim: item X is enqueued when it is not   *)
(* queued, the other items are enqueued at will, and dequeue is called     *)
(* again and again.  Nothing is removed.                                   *)

X == 1

StarveInit ==
    /\ q = priorityq_init
    /\ item = [n \in Items |-> priority_init]
    /\ pos = "idle"
    /\ ret = NULL
    /\ clz_zero \in ClzZeroOutcomes
    /\ active = {}
    /\ h = [kind |-> "starve"]

StarveEnqueue(n, priority) ==
    /\ pos = "idle"
    /\ n = X => X \notin active
    /\ LET w == priorityq_enqueue([q |-> q, p |-> priority_set(item, n, priority)], n)
       IN /\ WithinDrift(w.q)
          /\ q' = w.q
          /\ item' = w.p
    /\ active' = active \cup {n}
    /\ UNCHANGED <<pos, ret, clz_zero, h>>

StarveDequeueCall ==
    /\ pos = "idle"
    /\ IF q.size # 0
       THEN pos' = "loop" /\ UNCHANGED ret
       ELSE pos' = "idle" /\ ret' = NULL
    /\ UNCHANGED <<q, item, clz_zero, active, h>>

StarveNext ==
    \/ \E n \in Items, priority \in Priorities : StarveEnqueue(n, priority)
    \/ StarveDequeueCall
    \/ DequeuePass

StarveSpec == StarveInit /\ [][StarveNext]_vars

\* The caller calls dequeue again whenever the last call has returned.
StarveFair == StarveSpec /\ WF_vars(StarveDequeueCall)

-----------------------------------------------------------------------------
(* The brute-force test of src/test/prove.c: a single item p, the counter  *)
(* primed to every value, then every priority.                             *)

\* The item the tests call p.
P == 1

\* The entry of priorityq_dequeue, as a step of a driving program.
CallDequeue ==
    IF q'.size # 0
    THEN pos' = "loop" /\ UNCHANGED ret
    ELSE pos' = "idle" /\ ret' = NULL

BruteInit ==
    /\ q = priorityq_init
    /\ item = [n \in {P} |-> priority_init]
    /\ pos = "idle"
    /\ ret = NULL
    /\ clz_zero \in ClzZeroOutcomes
    /\ active = {}
    /\ h = [kind |-> "brute", phase |-> "prime", c |-> 0, p |-> 1, first |-> NULL]

\* One round of the priming loop: enqueue p with priority 1, call dequeue.
BrutePrime ==
    /\ h.phase = "prime" /\ pos = "idle"
    /\ h.c < 255
    /\ LET w == priorityq_enqueue([q |-> q, p |-> priority_set(item, P, 1)], P)
       IN q' = w.q /\ item' = w.p
    /\ active' = active \cup {P}
    /\ CallDequeue
    /\ h' = [h EXCEPT !.phase = "priming"]
    /\ UNCHANGED clz_zero

\* check(p == priorityq_dequeue(q)) of the priming loop.
BrutePrimed ==
    /\ h.phase = "priming" /\ pos = "idle"
    /\ ret = P
    /\ h' = [h EXCEPT !.phase = "prime", !.c = @ + 1]
    /\ UNCHANGED <<q, item, pos, ret, clz_zero, active>>

\* The counter is as primed and the queue is empty: enqueue p with the
\* priority under test and call dequeue.
BruteFirst(priority) ==
    /\ h.phase = "prime" /\ pos = "idle"
    /\ q.pc = h.c /\ q.size = 0
    /\ LET w == priorityq_enqueue([q |-> q, p |-> priority_set(item, P, priority)], P)
       IN q' = w.q /\ item' = w.p
    /\ active' = active \cup {P}
    /\ CallDequeue
    /\ h' = [h EXCEPT !.phase = "first", !.p = priority]
    /\ UNCHANGED clz_zero

\* The second dequeue, after the first one returned.
BruteSecond ==
    /\ h.phase = "first" /\ pos = "idle"
    /\ UNCHANGED <<q, item, active, clz_zero>>
    /\ CallDequeue
    /\ h' = [h EXCEPT !.phase = "second", !.first = ret]

BruteNext ==
    \/ BrutePrime
    \/ BrutePrimed
    \/ \E priority \in 0..(PQ_CEILING - 1) : BruteFirst(priority)
    \/ BruteSecond
    \/ DequeuePass

BruteSpec == BruteInit /\ [][BruteNext]_vars

-----------------------------------------------------------------------------
(* The starvation tests of src/test/prove.c: p is queued behind two items  *)
(* and every step enqueues two new items and calls dequeue once.           *)

\* Steps a starvation test allows before it fails (max_count).
MaxCount == 128

\* Identifiers for p and for the items the tests allocate; no round holds more
\* than 3 + 2 * MaxCount items at a time.
FloodItems == 1..(4 + 2 * MaxCount)

FloodTests == {"urgent_urgents", "other_urgents", "other_zeros", "reinsert"}

\* The item malloc hands out: one that is not in use.
Fresh(p) ==
    CHOOSE n \in DOMAIN p \ {P} :
        /\ ~p[n].linked
        /\ \A m \in DOMAIN p \ {P} : m < n => p[m].linked

\* new_priority(priority) and priorityq_enqueue of the new item.
enqueue_new(w, priority) ==
    LET n == Fresh(w.p)
        p1 == priority_set([w.p EXCEPT ![n] = priority_init], n, priority)
    IN priorityq_enqueue([w EXCEPT !.p = p1], n)

\* priority_set(p, NULL, priority) and priorityq_enqueue(q, p).
enqueue_p(w, priority) ==
    priorityq_enqueue([w EXCEPT !.p = priority_set(@, P, priority)], P)

\* free_priority(u)
free_priority(p, u) == IF u \in DOMAIN p THEN [p EXCEPT ![u] = priority_init] ELSE p

\* The priority of the items that flood the queue.
FloodPriority(test) == IF test = "other_zeros" THEN 0 ELSE PRIORITY_URGENT

\* The priority p is set to in round i.
PPriority(test, i) ==
    IF test = "urgent_urgents" THEN PRIORITY_URGENT
    ELSE IF test = "reinsert" THEN 64
    ELSE i

\* The number of rounds of a test.
Rounds(test) == IF test \in {"other_urgents", "other_zeros"} THEN PQ_CEILING ELSE 1

Linked(p) == {n \in DOMAIN p : p[n].linked}

FloodInit ==
    /\ q = priorityq_init
    /\ item = [n \in FloodItems |-> priority_init]
    /\ pos = "idle"
    /\ ret = NULL
    /\ clz_zero \in ClzZeroOutcomes
    /\ active = {}
    /\ h \in {[kind |-> "flood", test |-> t, phase |-> "start", i |-> 0, count |-> 0] :
                 t \in FloodTests}

\* The head of a round: two new items, then p.
FloodStart ==
    /\ h.phase = "start" /\ pos = "idle"
    /\ LET f == FloodPriority(h.test)
           w1 == enqueue_new(World, f)
           w2 == enqueue_new(w1, f)
           w3 == enqueue_p(w2, PPriority(h.test, h.i))
       IN /\ q' = w3.q
          /\ item' = w3.p
          /\ active' = active \cup Linked(w3.p)
    /\ h' = [h EXCEPT !.phase = "step", !.count = 0]
    /\ UNCHANGED <<pos, ret, clz_zero>>

\* One step: two new items, in the re-insertion test p again, then dequeue.
FloodStep ==
    /\ h.phase = "step" /\ pos = "idle"
    /\ LET f == FloodPriority(h.test)
           w1 == enqueue_new(World, f)
           w2 == enqueue_new(w1, f)
           w3 == IF h.test = "reinsert" THEN enqueue_p(w2, 64) ELSE w2
       IN /\ q' = w3.q
          /\ item' = w3.p
          /\ active' = active \cup Linked(w3.p)
    /\ CallDequeue
    /\ h' = [h EXCEPT !.phase = "wait"]
    /\ UNCHANGED clz_zero

\* The test of the item dequeue returned: p ends the round, any other item is
\* freed and after MaxCount steps the test fails.
FloodCheck ==
    /\ h.phase = "wait" /\ pos = "idle"
    /\ IF ret = P
       THEN /\ h' = [h EXCEPT !.phase = "drain"]
            /\ UNCHANGED item
       ELSE /\ h' = [h EXCEPT !.count = @ + 1,
                              !.phase = IF h.count + 1 < MaxCount
                                        THEN "step" ELSE "failed"]
            /\ item' = free_priority(item, ret)
    /\ UNCHANGED <<q, pos, ret, clz_zero, active>>

\* The loop that empties the queue after p was found.
FloodDrain ==
    /\ h.phase = "drain" /\ pos = "idle"
    /\ UNCHANGED <<q, item, active, clz_zero>>
    /\ CallDequeue
    /\ h' = [h EXCEPT !.phase = "drained"]

FloodDrained ==
    /\ h.phase = "drained" /\ pos = "idle"
    /\ IF ret # NULL
       THEN /\ h' = [h EXCEPT !.phase = "drain"]
            /\ item' = free_priority(item, ret)
       ELSE /\ h' = [h EXCEPT !.phase = IF h.i + 1 < Rounds(h.test)
                                        THEN "start" ELSE "finished",
                              !.i = @ + 1]
            /\ UNCHANGED item
    /\ UNCHANGED <<q, pos, ret, clz_zero, active>>

FloodNext ==
    \/ FloodStart
    \/ FloodStep
    \/ FloodCheck
    \/ FloodDrain
    \/ FloodDrained
    \/ DequeuePass

FloodSpec == FloodInit /\ [][FloodNext]_vars

-----------------------------------------------------------------------------
(* The ordering tests of src/test/prove.c: items are enqueued on a fresh   *)
(* queue, one urgent item last, and the queue is emptied by dequeue.       *)

\* Number of items of the short ordering runs.
OrderLen == 3

\* Priorities of the short ordering runs.
OrderPriorities == {0, 3, 12, 127}

\* The long runs enqueue the priorities 0..127 beginning at a start and going
\* on a stride apart modulo PQ_CEILING; start 127 and stride 127 is the
\* descending order of the test.
OrderStarts == {127, 0, 64}

OrderStrides == {127, 1, 5}

\* Item 1 is p, item i + 2 is ps + i.
OrderItems == 1..(PQ_CEILING + 1)

StridePlan(a, s) == [j \in 1..PQ_CEILING |-> (a + s * (j - 1)) % PQ_CEILING]

ShortPlans == [1..OrderLen -> OrderPriorities]

\* Number of items of the runs with equal priorities: three items ps + i and p.
TieLen == 4

\* Priorities of the runs with equal priorities, and the values of the counter
\* they start at: the fresh queue, and values from which 64 and 96 pass 255.
\* The priming loop of the brute force test leaves the queue as
\* priorityq_init does, but for pc.
TiePriorities == {32, 64, 96}

TieCounters == {0, 192, 224}

TiePlans == [1..TieLen -> TiePriorities]

OrderRuns ==
    {[kind |-> "order", test |-> "all", plan |-> StridePlan(a, s), urgent |-> TRUE,
      c |-> 0, phase |-> "fill", k |-> 0, got |-> <<>>] :
         a \in OrderStarts, s \in OrderStrides}
    \cup
    {[kind |-> "order", test |-> "some", plan |-> pl, urgent |-> u,
      c |-> 0, phase |-> "fill", k |-> 0, got |-> <<>>] :
         pl \in ShortPlans, u \in BOOLEAN}
    \cup
    {[kind |-> "order", test |-> "ties", plan |-> pl, urgent |-> FALSE,
      c |-> c, phase |-> "fill", k |-> 0, got |-> <<>>] :
         pl \in TiePlans, c \in TieCounters}

OrderInit ==
    /\ h \in OrderRuns
    /\ q = [priorityq_init EXCEPT !.pc = h.c]
    /\ item = [n \in OrderItems |-> priority_init]
    /\ pos = "idle"
    /\ ret = NULL
    /\ clz_zero \in ClzZeroOutcomes
    /\ active = {}

\* priority_set(ps + i, NULL, priority) and priorityq_enqueue(q, ps + i).
OrderEnqueue ==
    /\ h.phase = "fill" /\ pos = "idle"
    /\ h.k < Len(h.plan)
    /\ LET n == h.k + 2
           w == priorityq_enqueue(
                    [q |-> q, p |-> priority_set(item, n, h.plan[h.k + 1])], n)
       IN /\ q' = w.q
          /\ item' = w.p
          /\ active' = active \cup {n}
    /\ h' = [h EXCEPT !.k = @ + 1]
    /\ UNCHANGED <<pos, ret, clz_zero>>

\* priority_set(p, NULL, PRIORITY_URGENT) and priorityq_enqueue(q, p).
OrderUrgent ==
    /\ h.phase = "fill" /\ pos = "idle"
    /\ h.k = Len(h.plan) /\ h.urgent
    /\ LET w == enqueue_p(World, PRIORITY_URGENT)
       IN /\ q' = w.q
          /\ item' = w.p
    /\ active' = active \cup {P}
    /\ h' = [h EXCEPT !.phase = "drain"]
    /\ UNCHANGED <<pos, ret, clz_zero>>

\* A run without an urgent item goes on to the dequeues.
OrderFilled ==
    /\ h.phase = "fill" /\ pos = "idle"
    /\ h.k = Len(h.plan) /\ ~h.urgent
    /\ h' = [h EXCEPT !.phase = "drain"]
    /\ UNCHANGED <<q, item, pos, ret, clz_zero, active>>

OrderDequeue ==
    /\ h.phase = "drain" /\ pos = "idle"
    /\ UNCHANGED <<q, item, active, clz_zero>>
    /\ CallDequeue
    /\ h' = [h EXCEPT !.phase = "wait"]

\* The check of the value dequeue returned; NULL ends the run.
OrderCheck ==
    /\ h.phase = "wait" /\ pos = "idle"
    /\ h' = [h EXCEPT !.got = Append(@, ret),
                      !.phase = IF ret = NULL THEN "finished" ELSE "drain"]
    /\ UNCHANGED <<q, item, pos, ret, clz_zero, active>>

OrderNext ==
    \/ OrderEnqueue
    \/ OrderUrgent
    \/ OrderFilled
    \/ OrderDequeue
    \/ OrderCheck
    \/ DequeuePass

OrderSpec == OrderInit /\ [][OrderNext]_vars

-----------------------------------------------------------------------------
(* The free-running caller once more, with a record of its last call and   *)
(* of the order in which it made items urgent.                             *)

\* Number of calls of enqueue, dequeue and remove this caller makes.
MaxOps == 4

\* Values of the counter this caller starts at.  The priming loop of the brute
\* force test leaves the queue as priorityq_init does, but for pc.
OpCounters == {0, 192}

InSeq(l, n) == \E k \in 1..Len(l) : l[k] = n

\* The list of the queue item n is linked in.
Region(qq, n) ==
    IF InSeq(qq.done, n) THEN "done"
    ELSE IF InSeq(qq.immediate, n) THEN "immediate"
    ELSE IF InSeq(qq.processing, n) THEN "processing"
    ELSE IF \E i \in 0..(PQ_BINS - 1) : InSeq(qq.bins[i], n) THEN "bin"
    ELSE "none"

NoMark == [n |-> NULL, behind |-> {}]

\* The items made urgent and still queued, oldest first: h.urgents without
\* the item the last dequeue returned.
Urgents ==
    IF h.op = "dequeue" /\ pos = "idle" THEN Without(h.urgents, ret) ELSE h.urgents

\* The last item bumped to urgent, while it is queued, and the items that
\* were queued outside done when it was bumped.
Mark ==
    IF h.op = "dequeue" /\ pos = "idle" /\ ret = h.mark.n THEN NoMark ELSE h.mark

OpInit ==
    /\ q \in {[priorityq_init EXCEPT !.pc = c] : c \in OpCounters}
    /\ item = [n \in Items |-> priority_init]
    /\ pos = "idle"
    /\ ret = NULL
    /\ clz_zero \in ClzZeroOutcomes
    /\ active = {}
    /\ h = [kind |-> "op", calls |-> 0, op |-> "none", n |-> NULL, pri |-> 0,
            was |-> "none", urgents |-> <<>>, mark |-> NoMark]

\* priority_set(n, priority) followed by priorityq_enqueue(q, n).
OpEnqueue(n, priority) ==
    /\ pos = "idle"
    /\ h.calls < MaxOps
    /\ LET w == priorityq_enqueue([q |-> q, p |-> priority_set(item, n, priority)], n)
       IN /\ WithinDrift(w.q)
          /\ q' = w.q
          /\ item' = w.p
    /\ active' = active \cup {n}
    /\ h' = [h EXCEPT !.calls = @ + 1, !.op = "enqueue", !.n = n, !.pri = priority,
                      !.was = Region(q, n),
                      !.urgents = IF priority = PRIORITY_URGENT /\ ~InSeq(Urgents, n)
                                  THEN Append(Urgents, n) ELSE Urgents,
                      !.mark = IF /\ priority = PRIORITY_URGENT
                                  /\ Region(q, n) \in {"immediate", "processing", "bin"}
                               THEN [n |-> n,
                                     behind |-> {m \in active \ {n} :
                                                    Region(q, m) # "done"}]
                               ELSE Mark]
    /\ UNCHANGED <<pos, ret, clz_zero>>

OpRemove(n) ==
    /\ pos = "idle"
    /\ h.calls < MaxOps
    /\ LET w == priorityq_remove(World, n)
       IN /\ WithinDrift(w.q)
          /\ q' = w.q
          /\ item' = w.p
    /\ active' = active \ {n}
    /\ h' = [h EXCEPT !.calls = @ + 1, !.op = "remove", !.n = n, !.pri = 0,
                      !.was = Region(q, n),
                      !.urgents = Without(Urgents, n),
                      !.mark = IF Mark.n = n THEN NoMark ELSE Mark]
    /\ UNCHANGED <<pos, ret, clz_zero>>

\* An entry of dequeue that goes into the loop without the test of q->size.
OpDequeueCall_enters_loop ==
    /\ pos = "idle"
    /\ h.calls < MaxOps
    /\ pos' = "loop" /\ UNCHANGED ret
    /\ h' = [h EXCEPT !.calls = @ + 1, !.op = "dequeue", !.n = NULL, !.pri = 0,
                      !.was = "none", !.urgents = Urgents, !.mark = Mark]
    /\ UNCHANGED <<q, item, clz_zero, active>>

\* Entry of priorityq_dequeue: the test of q->size.
OpDequeueCall ==
    /\ pos = "idle"
    /\ h.calls < MaxOps
    /\ IF q.size # 0
       THEN pos' = "loop" /\ UNCHANGED ret
       ELSE pos' = "idle" /\ ret' = NULL
    /\ h' = [h EXCEPT !.calls = @ + 1, !.op = "dequeue", !.n = NULL, !.pri = 0,
                      !.was = "none", !.urgents = Urgents, !.mark = Mark]
    /\ UNCHANGED <<q, item, clz_zero, active>>

OpNext ==
    \/ \E n \in Items, priority \in Priorities : OpEnqueue(n, priority)
    \/ \E n \in Items : OpRemove(n)
    \/ OpDequeueCall
    \/ DequeuePass

OpSpec == OpInit /\ [][OpNext]_vars

-----------------------------------------------------------------------------
(* A caller that enqueues items, of priorities above 0, only when they are  *)
(* not queued, removes nothing and calls dequeue at will, with a record of  *)
(* the pairs of items that wait in the bucket bank together.                *)

\* Number of calls of enqueue and dequeue this caller makes.
MaxBankOps == 5

\* Priorities this caller uses; from counter 192 the sums of all but the
\* first pass 255.
BankPriorities == {33, 96, 127, 1}

\* The remaining distance of item n: (rel - pc) mod 256.
Distance(qq, p, n) == (p[n].rel - qq.pc) % 256

\* Item n is in processing or in a bin.
InBank(qq, n) == Region(qq, n) \in {"processing", "bin"}

\* The pairs <<a, b>> of items that are in the bucket bank, a with the
\* smaller remaining distance, together with the pairs of old whose items
\* are both still queued.
Ahead(qq, p, act, old) ==
    {pr \in old : pr[1] \in act /\ pr[2] \in act}
      \cup {pr \in Items \X Items :
               /\ InBank(qq, pr[1]) /\ InBank(qq, pr[2])
               /\ Distance(qq, p, pr[1]) < Distance(qq, p, pr[2])}

BankInit ==
    /\ q \in {[priorityq_init EXCEPT !.pc = c] : c \in OpCounters}
    /\ item = [n \in Items |-> priority_init]
    /\ pos = "idle"
    /\ ret = NULL
    /\ clz_zero \in ClzZeroOutcomes
    /\ active = {}
    /\ h = [kind |-> "bank", calls |-> 0, ahead |-> {}]

\* priority_set(n, priority) and priorityq_enqueue(q, n), n not queued.
BankEnqueue(n, priority) ==
    /\ pos = "idle"
    /\ h.calls < MaxBankOps
    /\ ~priority_is_active(n)
    /\ LET w == priorityq_enqueue([q |-> q, p |-> priority_set(item, n, priority)], n)
           old == {pr \in h.ahead : pr[1] # n /\ pr[2] # n}
       IN /\ q' = w.q
          /\ item' = w.p
          /\ h' = [h EXCEPT !.calls = @ + 1,
                            !.ahead = Ahead(w.q, w.p, active \cup {n}, old)]
    /\ active' = active \cup {n}
    /\ UNCHANGED <<pos, ret, clz_zero>>

\* Entry of priorityq_dequeue: the test of q->size.
BankDequeueCall ==
    /\ pos = "idle"
    /\ h.calls < MaxBankOps
    /\ IF q.size # 0
       THEN pos' = "loop" /\ UNCHANGED ret
       ELSE pos' = "idle" /\ ret' = NULL
    /\ h' = [h EXCEPT !.calls = @ + 1, !.ahead = Ahead(q, item, active, h.ahead)]
    /\ UNCHANGED <<q, item, clz_zero, active>>

BankNext ==
    \/ \E n \in Items, priority \in BankPriorities : BankEnqueue(n, priority)
    \/ BankDequeueCall
    \/ DequeuePass

BankSpec == BankInit /\ [][BankNext]_vars

-----------------------------------------------------------------------------
(* A caller that enqueues items only when they are not queued, removes      *)
(* nothing and calls dequeue at will, with a count for every item of the    *)
(* times priorityq_nq_only has linked it into a bin since its enqueue.      *)

\* Number of calls of enqueue and dequeue this caller makes.
MaxLifeOps == 15

\* Counters the queue starts from: the brute force test primes the queue to
\* every counter by enqueueing and dequeueing priority 1.
LifeCounters == {0, 241}

\* Priorities this caller uses; from counter 241 the sum with 16 passes 255.
LifePriorities == {1, 16}

\* The items that the do/while of priorityq_advance_priority_queue links
\* into a bin, in the order of the calls of priorityq_nq_only.
RECURSIVE drain_placed(_, _)
drain_placed(w, limit_q) ==
    LET n == list_dq_quick(w.q.processing)
        b == IF w.p[n].rel # w.q.pc /\ nq_index(w.q.pc, w.p[n].rel) >= 0
             THEN <<n>> ELSE <<>>
        w1 == drain_one(w)
        lim == limit_q - 1
    IN IF lim # 0 /\ list_has(w1.q.processing)
       THEN b \o drain_placed(w1, lim)
       ELSE b

\* The items one pass of the do/while of priorityq_dequeue links into a bin.
pass_placed(w) ==
    LET w0 == priorityq_advance_immediates(w)
    IN IF w0.q.size_q # 0 /\ list_has(w0.q.processing)
       THEN drain_placed(w0, get_high_index32(w0.q.size_q) + 1)
       ELSE <<>>

\* Number of times n occurs in the sequence s.
Times(s, n) == Cardinality({k \in 1..Len(s) : s[k] = n})

LifeInit ==
    /\ q \in {[priorityq_init EXCEPT !.pc = c] : c \in LifeCounters}
    /\ item = [n \in Items |-> priority_init]
    /\ pos = "idle"
    /\ ret = NULL
    /\ clz_zero \in ClzZeroOutcomes
    /\ active = {}
    /\ h = [kind |-> "life", calls |-> 0, placed |-> [n \in Items |-> 0]]

\* priority_set(n, priority) and priorityq_enqueue(q, n), n not queued.
LifeEnqueue(n, priority) ==
    /\ pos = "idle"
    /\ h.calls < MaxLifeOps
    /\ ~priority_is_active(n)
    /\ LET w == priorityq_enqueue([q |-> q, p |-> priority_set(item, n, priority)], n)
       IN /\ q' = w.q
          /\ item' = w.p
          /\ h' = [h EXCEPT !.calls = @ + 1,
                            !.placed[n] = IF Region(w.q, n) = "bin" THEN 1 ELSE 0]
    /\ active' = active \cup {n}
    /\ UNCHANGED <<pos, ret, clz_zero>>

\* Entry of priorityq_dequeue: the test of q->size.
LifeDequeueCall ==
    /\ pos = "idle"
    /\ h.calls < MaxLifeOps
    /\ IF q.size # 0
       THEN pos' = "loop" /\ UNCHANGED ret
       ELSE pos' = "idle" /\ ret' = NULL
    /\ h' = [h EXCEPT !.calls = @ + 1]
    /\ UNCHANGED <<q, item, clz_zero, active>>

\* One pass of the do/while; when a node came off done, the return.
LifePass ==
    /\ pos = "loop"
    /\ LET w == dequeue_pass(World)
           n == list_dq_done(w)
           s == pass_placed(World)
       IN /\ h' = [h EXCEPT !.placed = [m \in Items |-> @[m] + Times(s, m)]]
          /\ IF Corrupted(w.q)
             THEN /\ q' = w.q
                  /\ item' = w.p
                  /\ pos' = "corrupt"
                  /\ UNCHANGED <<ret, active>>
             ELSE IF n # NULL
             THEN LET w1 == dequeue_finish(w, n)
                  IN /\ q' = w1.q
                     /\ item' = w1.p
                     /\ pos' = "idle"
                     /\ ret' = n
                     /\ active' = active \ {n}
             ELSE /\ q' = w.q
                  /\ item' = w.p
                  /\ UNCHANGED <<pos, ret, active>>
    /\ UNCHANGED clz_zero

LifeNext ==
    \/ \E n \in Items, priority \in LifePriorities : LifeEnqueue(n, priority)
    \/ LifeDequeueCall
    \/ LifePass

LifeSpec == LifeInit /\ [][LifeNext]_vars

-----------------------------------------------------------------------------
(* priorityq_advance_priority_counter on every counter and every occupancy  *)
(* of the bins: item i + 1 is the content of bin i.                         *)

\* The values of the uint8_t counter pc.
Counters == 0..(2 * PQ_CEILING - 1)

\* The queue with counter c whose bins of occ hold one item each.
advance_input(c, occ) ==
    [priorityq_init EXCEPT
        !.pc = c,
        !.size = Cardinality(occ),
        !.size_q = Cardinality(occ),
        !.bins = [i \in 0..(PQ_BINS - 1) |->
                     IF i \in occ THEN <<i + 1>> ELSE <<>>]]

AdvanceInit ==
    /\ \E c \in Counters, occ \in SUBSET (0..(PQ_BINS - 1)) :
          /\ q = advance_input(c, occ)
          /\ item = [n \in 1..PQ_BINS |->
                        IF n - 1 \in occ
                        THEN [priority_init EXCEPT !.loc = PRIORITY_LOC_Q,
                                                   !.linked = TRUE]
                        ELSE priority_init]
          /\ active = {n \in 1..PQ_BINS : n - 1 \in occ}
    /\ pos = "loop"
    /\ ret = NULL
    /\ clz_zero \in ClzZeroOutcomes
    /\ h = [kind |-> "advance", applied |-> FALSE]

\* The call of priorityq_advance_priority_counter, which
\* priorityq_advance_priority_queue makes when size_q is not 0 and
\* processing is empty.
AdvanceApply ==
    /\ h.kind = "advance"
    /\ ~h.applied
    /\ q.size_q # 0
    /\ ~list_has(q.processing)
    /\ LET w == priorityq_advance_priority_counter(World)
       IN /\ q' = w.q
          /\ item' = w.p
    /\ h' = [h EXCEPT !.applied = TRUE]
    /\ UNCHANGED <<pos, ret, clz_zero, active>>

AdvanceNext == AdvanceApply

AdvanceSpec == AdvanceInit /\ [][AdvanceNext]_vars

-----------------------------------------------------------------------------
(* A caller that enqueues items only when they are not queued and calls     *)
(* dequeue at will, with a count of the items the current call of dequeue   *)
(* has taken out of processing.                                             *)

\* Number of items of this caller.
NumWorkItems == 3

\* Number of calls of enqueue and dequeue this caller makes.
MaxWorkOps == 5

\* Priorities this caller uses: 1 is one counter advance away, 3 two.
WorkPriorities == {1, 3}

WorkItems == 1..NumWorkItems

\* Number of calls of list_dq_quick(&q->processing) in the pass of the
\* do/while of priorityq_dequeue that leads from w to w1, where no item is
\* linked into processing again.
pass_moved(w, w1) ==
    IF w.q.size_q # 0 /\ list_has(w.q.processing)
    THEN list_count(w.q.processing) - list_count(w1.q.processing)
    ELSE 0

WorkInit ==
    /\ q = priorityq_init
    /\ item = [n \in WorkItems |-> priority_init]
    /\ pos = "idle"
    /\ ret = NULL
    /\ clz_zero \in ClzZeroOutcomes
    /\ active = {}
    /\ h = [kind |-> "work", calls |-> 0, entry |-> 0, moved |-> 0]

\* priority_set(n, priority) and priorityq_enqueue(q, n), n not queued.
WorkEnqueue(n, priority) ==
    /\ pos = "idle"
    /\ h.calls < MaxWorkOps
    /\ ~priority_is_active(n)
    /\ LET w == priorityq_enqueue([q |-> q, p |-> priority_set(item, n, priority)], n)
       IN /\ q' = w.q
          /\ item' = w.p
    /\ h' = [h EXCEPT !.calls = @ + 1]
    /\ active' = active \cup {n}
    /\ UNCHANGED <<pos, ret, clz_zero>>

\* Entry of priorityq_dequeue: the test of q->size.
WorkDequeueCall ==
    /\ pos = "idle"
    /\ h.calls < MaxWorkOps
    /\ IF q.size # 0
       THEN pos' = "loop" /\ UNCHANGED ret
       ELSE pos' = "idle" /\ ret' = NULL
    /\ h' = [h EXCEPT !.calls = @ + 1, !.entry = q.size_q, !.moved = 0]
    /\ UNCHANGED <<q, item, clz_zero, active>>

\* One pass of the do/while; when a node came off done, the return.
WorkPass ==
    /\ pos = "loop"
    /\ LET w == dequeue_pass(World)
           n == list_dq_done(w)
       IN /\ h' = [h EXCEPT !.moved = @ + pass_moved(World, w)]
          /\ IF Corrupted(w.q)
             THEN /\ q' = w.q
                  /\ item' = w.p
                  /\ pos' = "corrupt"
                  /\ UNCHANGED <<ret, active>>
             ELSE IF n # NULL
             THEN LET w1 == dequeue_finish(w, n)
                  IN /\ q' = w1.q
                     /\ item' = w1.p
                     /\ pos' = "idle"
                     /\ ret' = n
                     /\ active' = active \ {n}
             ELSE /\ q' = w.q
                  /\ item' = w.p
                  /\ UNCHANGED <<pos, ret, active>>
    /\ UNCHANGED clz_zero

WorkNext ==
    \/ \E n \in WorkItems, priority \in WorkPriorities : WorkEnqueue(n, priority)
    \/ WorkDequeueCall
    \/ WorkPass

WorkSpec == WorkInit /\ [][WorkNext]_vars

-----------------------------------------------------------------------------
(* Derived views of the state *)

RECURSIVE SumBins(_, _)
SumBins(qq, i) == IF i >= PQ_BINS THEN 0 ELSE list_count(qq.bins[i]) + SumBins(qq, i + 1)

priorityq_count_q(qq) == list_count(qq.processing) + SumBins(qq, 0)

priorityq_count_all(qq) ==
    list_count(qq.done) + list_count(qq.immediate) + priorityq_count_q(qq)

-----------------------------------------------------------------------------
(* Properties *)

\* The loop of dequeue is in a state it cannot leave: a pass takes nothing
\* off done and changes nothing.
Hung ==
    /\ pos = "loop"
    /\ LET w == dequeue_pass(World)
       IN list_dq_done(w) = NULL /\ w = World

\* C1: starvation freedom.  When dequeue is called infinitely often, an item
\* that is enqueued is eventually returned by a dequeue, whatever other items
\* are enqueued meanwhile.
C1_StarvationFree ==
    ([]<><<StarveDequeueCall>>_vars) => ((X \in active) ~> (X \notin active))

\* C2: a dequeue call on a queue whose size is not 0 leaves its loop and
\* returns an item: its loop is never in a state it cannot leave, and never
\* takes a list head for an item.
C2_DequeueReturns == ~Hung /\ pos # "corrupt"

\* C3: brute force.  For every primed counter value and every priority, the
\* dequeue after the enqueue of p returns p, and the dequeue after that
\* returns nothing.
C3_BruteForce ==
    h.kind = "brute" =>
        /\ h.phase = "first" =>
              /\ ~Hung
              /\ pos # "corrupt"
              /\ pos = "idle" => ret = P
        /\ h.phase = "second" => pos = "idle" /\ h.first = P /\ ret = NULL

\* The value of s is the sum of the values of a, b and c, all four uint32_t.
U32IsSum(s, a, b, c) ==
    /\ s = a + b + c
    /\ (IF U32Wrapped(s) THEN 1 ELSE 0) =
         (IF U32Wrapped(a) THEN 1 ELSE 0) + (IF U32Wrapped(b) THEN 1 ELSE 0)
           + (IF U32Wrapped(c) THEN 1 ELSE 0)

\* C4: after every operation size is the sum of size_done, size_immediate
\* and size_q.
C4_SizeIsSum ==
    pos = "idle" => U32IsSum(q.size, q.size_done, q.size_imed, q.size_q)

\* C5: after every operation size_q is the number of items in processing
\* plus the number of items in the eight bins.
C5_SizeQCounts == pos = "idle" => q.size_q = priorityq_count_q(q)

\* An item sits in processing, another in a bin, after an operation.
C5_Witness ==
    /\ pos = "idle"
    /\ list_count(q.processing) > 0
    /\ SumBins(q, 0) > 0
    /\ q.size_q = 2

\* C6: after every operation size_done and size_immediate are the lengths
\* of the done and immediate lists, and size is the number of items in all
\* lists.
C6_SizesCountLists ==
    pos = "idle" =>
        /\ q.size_done = list_count(q.done)
        /\ q.size_imed = list_count(q.immediate)
        /\ q.size = priorityq_count_all(q)

\* C7: after every operation an item is active exactly when it has been
\* enqueued and not since returned by dequeue or removed.
C7_ActiveIffQueued ==
    pos = "idle" => \A n \in DOMAIN item : priority_is_active(n) <=> n \in active

\* The item the last dequeue returned has been enqueued again and is active,
\* while another item is out of the queue.
C7_Witness ==
    /\ pos = "idle"
    /\ h.kind = "free"
    /\ ret # NULL /\ ret \in active /\ priority_is_active(ret)
    /\ \E m \in DOMAIN item : m \notin active /\ ~priority_is_active(m)

\* The starvation test failed, or cannot go on.
FloodFailed == h.phase = "failed" \/ pos = "corrupt" \/ Hung

\* C8: under a flood of urgent items p, urgent or of any priority, is
\* returned within MaxCount steps.
C8_UrgentFlood ==
    (h.kind = "flood" /\ h.test \in {"urgent_urgents", "other_urgents"})
        => ~FloodFailed

\* p is returned in a round in which the counter wrapped past 255.
C8_Witness ==
    /\ h.kind = "flood" /\ h.test = "other_urgents"
    /\ h.phase = "drain" /\ ret = P
    /\ h.i > 0 /\ q.pc < h.i
    /\ h.count > 0 /\ h.count < MaxCount

\* C9: under a flood of priority-0 items p of any priority is returned
\* within MaxCount steps.
C9_ZeroFlood ==
    (h.kind = "flood" /\ h.test = "other_zeros") => ~FloodFailed

C9_Witness ==
    /\ h.kind = "flood" /\ h.test = "other_zeros"
    /\ h.phase = "drain" /\ ret = P
    /\ h.i > 0 /\ q.pc < h.i
    /\ h.count > 0 /\ h.count < MaxCount

\* C10: p of priority 64, set to 64 and enqueued again in every step of an
\* urgent flood, is returned within MaxCount steps.
C10_Reinsertion ==
    (h.kind = "flood" /\ h.test = "reinsert") => ~FloodFailed

C10_Witness ==
    /\ h.kind = "flood" /\ h.test = "reinsert"
    /\ h.phase = "drain" /\ ret = P
    /\ h.count > 0 /\ h.count < MaxCount

\* The item of a long run that was given priority v.
PlanItem(plan, v) == 1 + (CHOOSE j \in 1..Len(plan) : plan[j] = v)

\* C11: with the priorities 0..127 enqueued on a fresh queue and one urgent
\* item last, the dequeues return the urgent item, then the items of
\* priority 0, 1, ..., 127 in this order, then nothing.
C11_PriorityOrder ==
    (h.kind = "order" /\ h.test = "all") =>
        /\ ~Hung
        /\ pos # "corrupt"
        /\ \A j \in 1..Len(h.got) :
              h.got[j] = IF j = 1 THEN P
                         ELSE IF j <= PQ_CEILING + 1 THEN PlanItem(h.plan, j - 2)
                         ELSE NULL

\* The run of the test, priorities enqueued from 127 down to 0, is complete.
C11_Witness ==
    /\ h.kind = "order" /\ h.test = "all" /\ h.phase = "finished"
    /\ h.plan[1] = PQ_CEILING - 1 /\ h.plan[2] = PQ_CEILING - 2
    /\ Len(h.got) = PQ_CEILING + 2
    /\ h.got[2] = PQ_CEILING + 1

\* The item is one of the items ps + i.
Plain(n) == n # NULL /\ n # P

\* C12, as the program behaves: whatever the order of the enqueues, the
\* urgent item is returned first and then the items by increasing priority
\* value, the items of priority 0 before all others; priority 12 enqueued
\* before priority 3 is returned after it.
C12_IncreasingOrder ==
    h.kind = "order" =>
        \A j \in 1..(Len(h.got) - 1) :
            /\ h.got[j + 1] # P
            /\ (Plain(h.got[j]) /\ Plain(h.got[j + 1]))
                  => item[h.got[j]].abs <= item[h.got[j + 1]].abs

\* C12, as stated: the items are returned by decreasing priority value, the
\* items of priority 0 after all others.
C12_DecreasingOrder ==
    h.kind = "order" =>
        \A j \in 1..(Len(h.got) - 1) :
            (Plain(h.got[j]) /\ Plain(h.got[j + 1]))
                => \/ item[h.got[j + 1]].abs = 0
                   \/ /\ item[h.got[j]].abs # 0
                      /\ item[h.got[j]].abs >= item[h.got[j + 1]].abs

\* Priority 12 was enqueued, then priority 3, and the item of priority 3 has
\* been returned right before the item of priority 12.
C12_Witness ==
    /\ h.kind = "order" /\ h.test = "some" /\ h.phase = "finished"
    /\ h.plan[1] = 12 /\ h.plan[2] = 3
    /\ \E j \in 1..(Len(h.got) - 1) : h.got[j] = 3 /\ h.got[j + 1] = 2

\* The last step was a call of the free-running caller, on item n.
Called(op, n) == h'.calls = h.calls + 1 /\ h'.op = op /\ h'.n = n

\* The last dequeue has returned, and returned an item.
Returned == h.kind = "op" /\ h.op = "dequeue" /\ pos = "idle" /\ ret # NULL

\* C13: of two items made urgent while queued nowhere, or bumped to urgent,
\* the one made urgent first is returned first: an urgent item that dequeue
\* returns is the oldest of the urgent items in the queue.
C13_UrgentFifo ==
    (Returned /\ InSeq(h.urgents, ret)) => ret = Head(h.urgents)

\* A dequeue returned the older of two urgent items; the younger is in done.
C13_Witness ==
    /\ Returned
    /\ Len(h.urgents) >= 2 /\ ret = h.urgents[1]
    /\ Region(q, h.urgents[2]) = "done"

\* An item that entered done as urgent is queued.
UrgentQueued ==
    \E u \in DOMAIN item : item[u].linked /\ item[u].loc = PRIORITY_LOC_DONE

\* C14, as stated: when the queue holds an urgent item, dequeue returns an
\* urgent item.  In the starvation tests every item keeps the priority it was
\* enqueued with, so urg tells whether the returned item was urgent.
C14_UrgentFirst ==
    (h.kind = "flood" /\ h.phase = "wait" /\ pos = "idle" /\ ret # NULL
       /\ UrgentQueued)
        => item[ret].urg = 1

\* C14, as the program behaves: when the queue holds an urgent item, dequeue
\* returns the item at the head of done, urgent or not: the items that
\* entered done, as urgent or moved there from immediate, are returned in the
\* order in which they entered it.
C14_DoneFirst ==
    [][(pos = "loop" /\ pos' = "idle" /\ UrgentQueued) => ret' = Head(q.done)]_vars

\* Under the flood of urgent items p, of a priority above 0, was returned
\* while urgent items were queued.
C14_Witness ==
    /\ h.kind = "flood" /\ h.test = "other_urgents" /\ h.i > 0
    /\ h.phase = "wait" /\ pos = "idle"
    /\ ret = P /\ item[P].urg = 0 /\ item[P].abs = h.i
    /\ UrgentQueued

\* One if the condition holds, zero otherwise.
One(b) == IF b THEN 1 ELSE 0

\* The lists of qq without item n, the other items in their order.
ListsWithout(qq, n) ==
    [done |-> Without(qq.done, n), immediate |-> Without(qq.immediate, n),
     processing |-> Without(qq.processing, n),
     bins |-> [i \in 0..(PQ_BINS - 1) |-> Without(qq.bins[i], n)]]

Lists(qq) == ListsWithout(qq, NULL)

\* C15: remove of an item that is in a list, whichever list, unlinks it,
\* takes one off size and off the size of the region the item is in and off
\* no other, leaves the item inactive, and leaves pc and the other items, their
\* lists and their order as they were.
C15_RemoveStage ==
    [][\A n \in Items :
         (Remove(n) /\ Region(q, n) # "none") =>
            LET r == Region(q, n)
            IN /\ Lists(q') = ListsWithout(q, n)
               /\ ~item'[n].linked
               /\ \A m \in DOMAIN item \ {n} : item'[m] = item[m]
               /\ q'.pc = q.pc
               /\ q'.size = q.size - 1
               /\ q'.size_done = q.size_done - One(r = "done")
               /\ q'.size_imed = q.size_imed - One(r = "immediate")
               /\ q'.size_q = q.size_q - One(r \in {"processing", "bin"})]_vars

\* C16: remove of an item that is in no list changes neither the queue nor
\* any item.
C16_RemoveIdempotent ==
    [][\A n \in Items :
         (Called("remove", n) /\ ~item[n].linked) => (q' = q /\ item' = item)]_vars

\* The item the last dequeue returned was removed while another item was
\* queued.
C16_Witness ==
    /\ h.kind = "op" /\ h.op = "remove" /\ h.was = "none"
    /\ h.n = ret /\ ret # NULL
    /\ q.size > 0 /\ active # {}

\* C17: enqueue of an item that is in the done list leaves the queue as it
\* was, whatever priority the item was set to.
C17_EnqueueInDone ==
    [][\A n \in Items, priority \in Priorities :
         (Enqueue(n, priority) /\ Region(q, n) = "done") => q' = q]_vars

\* C18: an item in immediate, in processing or in a bin that is set to urgent
\* and enqueued is moved to the tail of done; size is unchanged, size_done
\* grows by one and the size of the region the item left shrinks by one; and
\* the item is returned before every item that was queued outside done.
C18_BumpToUrgent ==
    /\ []((Returned /\ h.mark.n # NULL /\ ret # h.mark.n) => ret \notin h.mark.behind)
    /\ [][\A n \in Items :
            (/\ Called("enqueue", n) /\ h'.pri = PRIORITY_URGENT
             /\ Region(q, n) \in {"immediate", "processing", "bin"}) =>
               LET r == Region(q, n)
                   l == ListsWithout(q, n)
               IN /\ Lists(q') = [l EXCEPT !.done = Append(@, n)]
                  /\ q'.pc = q.pc
                  /\ q'.size = q.size
                  /\ q'.size_done = q.size_done + 1
                  /\ q'.size_imed = q.size_imed - One(r = "immediate")
                  /\ q'.size_q = q.size_q - One(r \in {"processing", "bin"})]_vars

\* An item bumped to urgent out of a bin or of processing was returned while
\* an item that was queued outside done is still queued.
C18_Witness ==
    /\ Returned
    /\ ret = h.mark.n
    /\ item[ret].abs = 0 /\ item[ret].urg = 1 /\ item[ret].rel # q.pc
    /\ h.mark.behind \cap active # {}

\* C19: enqueue of a queued item set to a priority that is not urgent changes
\* nothing but what priority_set changed, when the item is in immediate or the
\* new priority is at least (rel - pc) mod 256.
C19_EnqueueNoOp ==
    [][\A n \in Items :
         (/\ Called("enqueue", n) /\ h'.pri # PRIORITY_URGENT
          /\ item[n].linked
          /\ \/ Region(q, n) = "immediate"
             \/ h'.pri >= (item[n].rel - q.pc) % 256) =>
            (q' = q /\ item' = priority_set(item, n, h'.pri))]_vars

\* An item whose rel is below pc, the sum having passed 255, was enqueued
\* again with a priority of at least its remaining distance, and is where it
\* was.
C19_Witness ==
    /\ h.kind = "op" /\ h.op = "enqueue" /\ h.pri # PRIORITY_URGENT /\ h.pri > 0
    /\ h.was \in {"bin", "processing"} /\ Region(q, h.n) = h.was
    /\ item[h.n].rel < q.pc
    /\ h.pri >= (item[h.n].rel - q.pc) % 256

\* C20: enqueue of an item in a bin or in processing set to a priority, not
\* urgent, below (rel - pc) mod 256 places the item anew: in immediate for
\* priority 0, else with rel = (priority + pc) mod 256; size and
\* size_q + size_immediate are unchanged.
C20_Reprioritize ==
    [][\A n \in Items :
         (/\ Called("enqueue", n) /\ h'.pri # PRIORITY_URGENT
          /\ Region(q, n) \in {"bin", "processing"}
          /\ h'.pri < (item[n].rel - q.pc) % 256) =>
            /\ IF h'.pri = 0
               THEN Region(q', n) = "immediate"
               ELSE /\ item'[n].rel = (h'.pri + q.pc) % 256
                    /\ Region(q', n) \in {"bin", "processing"}
            /\ q'.size = q.size
            /\ q'.size_q + q'.size_imed = q.size_q + q.size_imed]_vars

\* C21: dequeue on a queue whose size is 0 returns nothing and changes
\* neither the queue, its counters and lists, nor any item.
C21_EmptyDequeue ==
    [][(Called("dequeue", NULL) /\ q.size = 0) =>
          (pos' = "idle" /\ ret' = NULL /\ q' = q /\ item' = item)]_vars

\* A dequeue returned nothing on a queue that had held an item and was
\* emptied by a dequeue or a remove.
C21_Witness ==
    /\ h.kind = "op" /\ h.op = "dequeue" /\ pos = "idle"
    /\ ret = NULL /\ q.size = 0
    /\ h.calls >= 3
    /\ \E n \in DOMAIN item : item[n] # priority_init

\* C22: items of equal positive priority enqueued at one counter value with
\* no dequeue in between are returned, in the order of their enqueues, and
\* before every item of a larger priority enqueued at that counter value: the
\* dequeues of such a run all return, and of two items returned the earlier
\* has the smaller priority or, the priorities being equal, is the one that
\* was enqueued first.  Item identifiers grow in the order of the enqueues.
C22_TieOrder ==
    (h.kind = "order" /\ h.test = "ties") =>
        /\ ~Hung
        /\ pos # "corrupt"
        /\ \A j \in 1..Len(h.got), k \in 1..Len(h.got) :
              (j < k /\ Plain(h.got[j]) /\ Plain(h.got[k]))
                => \/ item[h.got[j]].abs < item[h.got[k]].abs
                   \/ /\ item[h.got[j]].abs = item[h.got[k]].abs
                      /\ h.got[j] < h.got[k]

\* The position of the highest set bit of x, for x in 1..255.
HighBit(x) == CHOOSE k \in 0..(PQ_BINS - 1) : 2 ^ k <= x /\ x < 2 ^ (k + 1)

\* C23: enqueue of an item that is in no list adds one to size and links the
\* item at the tail of one list and changes no other list: done for urgent,
\* immediate for priority 0, and for any other priority a bin, with
\* rel = (priority + pc) mod 256; when rel - 1 >= pc the bin is the one of
\* the highest set bit of rel XOR pc, which for pc = 0 is the highest set
\* bit of the priority.
C23_FreshEnqueue ==
    [][\A n \in Items :
         (Called("enqueue", n) /\ ~item[n].linked) =>
            LET priority == h'.pri
                rp == (priority + q.pc) % 256
            IN /\ q'.size = q.size + 1
               /\ IF priority = PRIORITY_URGENT
                  THEN Lists(q') = [Lists(q) EXCEPT !.done = Append(@, n)]
                  ELSE IF priority = 0
                  THEN Lists(q') = [Lists(q) EXCEPT !.immediate = Append(@, n)]
                  ELSE /\ item'[n].rel = rp
                       /\ \E i \in 0..(PQ_BINS - 1) :
                             /\ Lists(q') = [Lists(q) EXCEPT !.bins[i] = Append(@, n)]
                             /\ (rp + 255) % 256 >= q.pc => i = HighBit(Xor8(rp, q.pc))
                             /\ q.pc = 0 => i = HighBit(priority)]_vars

\* An enqueue has placed item n with priorityq_nq_only: n is newly queued
\* with a priority above 0, or was taken out of the bucket bank and placed
\* anew with another rel.
EnqueuePlaced(n) ==
    /\ pos = "idle"
    /\ item'[n].linked /\ item'[n].loc = PRIORITY_LOC_Q
    /\ ~item[n].linked \/ item'[n].rel # item[n].rel

\* C24: whenever an item is placed into a bin, by an enqueue or by a pass of
\* dequeue that takes it out of processing, the value passed to
\* get_high_index32 is not 0.
C24_ValidBin ==
    [][/\ \A n \in DOMAIN item :
             EnqueuePlaced(n) => nq_value(q.pc, item'[n].rel) # 0
       /\ pos = "loop" => 0 \notin pass_values(World)]_vars

\* The location tag of the list named r.
TagOf(r) ==
    IF r = "done" THEN PRIORITY_LOC_DONE
    ELSE IF r = "immediate" THEN PRIORITY_LOC_IMED
    ELSE IF r \in {"processing", "bin"} THEN PRIORITY_LOC_Q
    ELSE PRIORITY_LOC_NONE

\* C25: after every operation every item that is linked in a list of the
\* queue carries the location tag of that list.
C25_TagMatchesList ==
    pos = "idle" =>
        \A n \in DOMAIN item :
            Region(q, n) # "none" => item[n].loc = TagOf(Region(q, n))

\* The number of places item n takes in the lists of the queue.
Occurrences(qq, n) ==
    LET c(l) == Len(SelectSeq(l, LAMBDA e : e = n))
    IN c(qq.done) + c(qq.immediate) + c(qq.processing)
         + c(qq.bins[0]) + c(qq.bins[1]) + c(qq.bins[2]) + c(qq.bins[3])
         + c(qq.bins[4]) + c(qq.bins[5]) + c(qq.bins[6]) + c(qq.bins[7])

\* C26: after every operation the location tag of an item is NONE exactly
\* when its links are null, that is when it is in no list of the queue, and
\* no item is linked more than once.
C26_NoneIffUnlinked ==
    pos = "idle" =>
        \A n \in DOMAIN item :
            /\ item[n].loc = PRIORITY_LOC_NONE <=> ~item[n].linked
            /\ item[n].linked <=> Occurrences(q, n) > 0
            /\ Occurrences(q, n) <= 1

\* The item the last dequeue returned is out of the queue, with the tag
\* NONE, while an item that was moved from immediate to done is queued.
C26_Witness ==
    /\ h.kind = "free" /\ pos = "idle"
    /\ ret # NULL /\ ~item[ret].linked /\ item[ret].loc = PRIORITY_LOC_NONE
    /\ \E m \in DOMAIN item :
          /\ Region(q, m) = "done" /\ item[m].linked
          /\ item[m].loc = PRIORITY_LOC_IMED

\* C27: after every operation no item that is in one of the eight bins has
\* rel equal to pc.
C27_BinsNotAtCounter ==
    pos = "idle" =>
        \A i \in 0..(PQ_BINS - 1) : \A k \in 1..Len(q.bins[i]) :
            item[q.bins[i][k]].rel # q.pc

\* The last dequeue returned an item that had waited in the bins until the
\* counter reached its rel, and another item is left in a bin.
C27_Witness ==
    /\ h.kind = "free" /\ pos = "idle"
    /\ ret # NULL /\ item[ret].abs > 0 /\ item[ret].rel = q.pc /\ ~item[ret].linked
    /\ \E m \in DOMAIN item : Region(q, m) = "bin"

\* C28: the counter does not pass over an item of the bucket bank.  Of two
\* items that wait in the bucket bank together and are neither removed nor
\* enqueued again, the one with the larger remaining distance is not returned
\* while the other is still queued; and no step that moves the counter from
\* pc to a new value leaves in processing or in a bin an item whose rel is
\* strictly between pc and the new value, going round modulo 256.
C28_NoPassOver ==
    /\ [](h.kind = "bank" =>
             \A pr \in h.ahead : pr[1] \in active => pr[2] \in active)
    /\ [][q'.pc # q.pc =>
            \A n \in DOMAIN item :
                InBank(q', n) =>
                    LET d == (q'.pc - q.pc) % 256
                        r == (item[n].rel - q.pc) % 256
                    IN ~(0 < r /\ r < d)]_vars

\* Of two items that waited in the bucket bank together the one with the
\* smaller remaining distance, whose rel is below its priority, the sum
\* having passed 255, has been returned, and the other is still queued.
C28_Witness ==
    /\ h.kind = "bank" /\ pos = "idle"
    /\ ret # NULL /\ ret \notin active
    /\ item[ret].rel < item[ret].abs
    /\ \E b \in Items :
          <<ret, b>> \in h.ahead /\ b \in active /\ priority_is_active(b)

\* C29: conservation.  Dequeue called again and again until it returns
\* nothing returns every queued item once and leaves all four size counters
\* 0: no call hangs or takes a list head for an item, size is the number of
\* queued items, each of which one call returns, and when size is 0, which is
\* when dequeue returns nothing, size_done, size_immediate and size_q are 0.
C29_Conservation ==
    /\ ~Hung
    /\ pos # "corrupt"
    /\ pos = "idle" => q.size = Cardinality(Linked(item))
    /\ (pos = "idle" /\ q.size = 0) =>
          (q.size_done = 0 /\ q.size_imed = 0 /\ q.size_q = 0)

\* The queue and items after the counter advance of the next pass of the
\* do/while, when that pass advances the counter.
AfterAdvance ==
    LET w0 == priorityq_advance_immediates(World)
    IN IF w0.q.size_q # 0 /\ ~list_has(w0.q.processing)
       THEN priorityq_advance_priority_counter(w0)
       ELSE w0

\* C30: an item that a counter advance takes out of bin i, and that the
\* drain of processing then places into a bin again, is placed into a bin of
\* an index below i.  The drain places it by the counter the advance has set.
C30_BinIndexDecreases ==
    pos = "loop" =>
        LET w == AfterAdvance
        IN \A i \in 0..(PQ_BINS - 1) : \A k \in 1..Len(q.bins[i]) :
              LET n == q.bins[i][k]
                  j == nq_index(w.q.pc, item[n].rel)
              IN (InSeq(w.q.processing, n) /\ item[n].rel # w.q.pc /\ j >= 0)
                    => j < i

\* C31: from its enqueue on, an item that is not enqueued again is linked
\* into a bin at most 7 times, whatever other items are enqueued and
\* dequeued meanwhile.
C31_AtMostSevenBins ==
    h.kind = "life" => \A n \in Items : h.placed[n] <= PQ_BINS - 1

\* The step is the call of priorityq_advance_priority_counter.
Advances == h.kind = "advance" /\ ~h.applied /\ h'.applied

\* C32: a counter advance moves the content of the one bin it selected to
\* the tail of processing and leaves the other seven bins, done and
\* immediate as they were, for every counter and every occupancy of the bins.
C32_OneBinFires ==
    [][Advances =>
          LET i == advance_index(q)
              bits == advance_bits(q.pc, advance_newpc(q.pc, i))
          IN /\ \A j \in (i + 1)..(PQ_BINS - 1) : Bit(bits, j) = 0
             /\ q'.processing = q.processing \o q.bins[i]
             /\ q'.bins[i] = <<>>
             /\ \A j \in 0..(PQ_BINS - 1) : j # i => q'.bins[j] = q.bins[j]
             /\ q'.done = q.done
             /\ q'.immediate = q.immediate]_vars

\* A counter advance has moved a bin to processing while a higher and a lower
\* bin are occupied.
C32_Witness ==
    /\ h.kind = "advance" /\ h.applied
    /\ \E i \in 1..(PQ_BINS - 2) :
          /\ q.processing = <<i + 1>>
          /\ list_has(q.bins[i - 1])
          /\ \A j \in (i + 1)..(PQ_BINS - 1) : list_has(q.bins[j])

\* The counter values passed on the way from pc to newpc, counting upward
\* with wraparound from 255 to 0.
Between(pc, newpc) ==
    {(pc + k) % (2 * PQ_CEILING) : k \in 1..(((newpc - pc) % (2 * PQ_CEILING)) - 1)}

\* C33: for the bin index i the counter advance selects, the new counter is
\* ((pc | (2^i - 1)) + 1) mod 256, its bit i differs from the bit i of pc,
\* and it is the first counter value after pc, counting upward with
\* wraparound from 255 to 0, whose bit i differs.
C33_NextBitFlip ==
    [][Advances =>
          LET i == advance_index(q)
              pc == q.pc
              newpc == q'.pc
          IN /\ newpc = (Or8(pc, (2 ^ i) - 1) + 1) % (2 * PQ_CEILING)
             /\ newpc # pc
             /\ Bit(newpc, i) # Bit(pc, i)
             /\ \A v \in Between(pc, newpc) : Bit(v, i) = Bit(pc, i)]_vars

\* C33 as stated: the new counter is the smallest counter value strictly
\* greater than pc whose bit i differs from the bit i of pc.
C33_SmallestGreater ==
    [][Advances =>
          LET i == advance_index(q)
              pc == q.pc
              newpc == q'.pc
          IN /\ newpc = (Or8(pc, (2 ^ i) - 1) + 1) % (2 * PQ_CEILING)
             /\ newpc > pc
             /\ Bit(newpc, i) # Bit(pc, i)
             /\ \A v \in (pc + 1)..(newpc - 1) : Bit(v, i) = Bit(pc, i)]_vars

\* A counter advance from a counter of 128 or more has selected bin 7, moved
\* its content to processing and wrapped the counter to 0.
C33_Witness ==
    /\ h.kind = "advance" /\ h.applied
    /\ q.pc = 0
    /\ q.processing = <<PQ_BINS>>
    /\ \E i \in 0..(PQ_BINS - 2) : list_has(q.bins[i])

\* C34: the counter changes only in a pass of the do/while of dequeue, at
\* whose start size_q is not 0 and processing is empty, and then to the value
\* the counter advance computes; enqueue (of a fresh item, of a queued one,
\* urgent or not), remove, the entry of dequeue and every pass that starts
\* with size_q 0 leave it unchanged.
C34_CounterOnlyAdvances ==
    [][/\ \A n \in Items : Called("enqueue", n) => q'.pc = q.pc
       /\ \A n \in Items : Called("remove", n) => q'.pc = q.pc
       /\ Called("dequeue", NULL) => q'.pc = q.pc
       /\ q.size_q = 0 => q'.pc = q.pc
       /\ q'.pc # q.pc =>
             /\ pos = "loop"
             /\ q.size_q # 0
             /\ ~list_has(q.processing)
             /\ q'.pc = advance_newpc(q.pc, advance_index(q))]_vars

\* The counter has advanced in a dequeue, and the last call was an enqueue or
\* a remove that left an item queued.
C34_Witness ==
    /\ h.kind = "op" /\ pos = "idle"
    /\ q.pc \notin OpCounters
    /\ h.op \in {"enqueue", "remove"}
    /\ q.size # 0

\* C35: after c rounds of enqueueing and dequeueing priority 1 on a fresh
\* queue the counter is c, for every c in 0..255; and when the dequeue of a
\* single item of priority p, enqueued on the empty queue with counter c, has
\* returned, the counter is (c + p) mod 256.
C35_CounterIsSum ==
    h.kind = "brute" =>
        /\ (h.phase = "prime" /\ pos = "idle") => q.pc = h.c
        /\ (h.phase = "first" /\ pos = "idle") =>
              q.pc = (h.c + h.p) % (2 * PQ_CEILING)

\* The dequeue has returned the item whose priority added to the primed
\* counter passes 255.
C35_Witness ==
    /\ h.kind = "brute" /\ h.phase = "first" /\ pos = "idle"
    /\ ret = P
    /\ h.c >= PQ_CEILING
    /\ h.p > 1
    /\ h.c + h.p >= 2 * PQ_CEILING
    /\ q.pc < h.c

\* C36: one pass of the do/while of a dequeue call takes at most
\* high_bit_index(size_q) + 1 items out of processing, size_q taken at the
\* start of the pass, and none when size_q is 0; a call makes as many passes
\* as it needs for an item to reach done.
C36_LimitPerPass ==
    [][(h.kind = "work" /\ pos = "loop") =>
          LET moved == h'.moved - h.moved
          IN /\ moved >= 0
             /\ q.size_q = 0 => moved = 0
             /\ q.size_q # 0 => moved <= get_high_index32(q.size_q) + 1
             /\ ~list_has(q.processing) => moved = 0]_vars

\* C36 as stated: one call of dequeue takes at most
\* high_bit_index(size_q) + 1 items out of processing, size_q taken on entry
\* to the call.
C36_LimitPerCall ==
    h.kind = "work" =>
        /\ h.entry = 0 => h.moved = 0
        /\ h.entry # 0 => h.moved <= get_high_index32(h.entry) + 1

\* A pass has taken as many items out of processing as the limit allows, two
\* or more, and has left an item there.
C36_Witness ==
    /\ h.kind = "work" /\ pos = "loop"
    /\ list_has(q.processing)
    /\ h.entry # 0
    /\ h.moved >= 2
    /\ h.moved = get_high_index32(h.entry) + 1

\* The sizes of the queue qq.
Sizes(qq) == <<qq.size, qq.size_done, qq.size_imed, qq.size_q>>

\* The step from w to w1 takes n from the head of processing and, when its
\* rel equals the counter, appends it to immediate with location IMMEDIATE,
\* size_q decremented and size_imed incremented, and otherwise appends it to
\* a bin with its location, its rel and all sizes unchanged.
DrainedRight(w, w1, n) ==
    /\ w1.q.pc = w.q.pc
    /\ w1.q.done = w.q.done
    /\ w1.q.processing = Tail(w.q.processing)
    /\ w1.p[n].rel = w.p[n].rel
    /\ IF w.p[n].rel = w.q.pc
       THEN /\ w1.q.immediate = Append(w.q.immediate, n)
            /\ w1.q.bins = w.q.bins
            /\ w1.p[n].loc = PRIORITY_LOC_IMED
            /\ w1.q.size_q = w.q.size_q - 1
            /\ w1.q.size_imed = w.q.size_imed + 1
            /\ w1.q.size = w.q.size
            /\ w1.q.size_done = w.q.size_done
       ELSE /\ w1.q.immediate = w.q.immediate
            /\ \E i \in 0..(PQ_BINS - 1) :
                  w1.q.bins = [w.q.bins EXCEPT ![i] = Append(@, n)]
            /\ w1.p[n].loc = w.p[n].loc
            /\ Sizes(w1.q) = Sizes(w.q)

\* DrainedRight for every round of the do/while of
\* priorityq_advance_priority_queue that starts from w with limit_q.
RECURSIVE drain_checked(_, _)
drain_checked(w, limit_q) ==
    LET n == list_dq_quick(w.q.processing)
        w1 == drain_one(w)
        lim == limit_q - 1
    IN /\ DrainedRight(w, w1, n)
       /\ (lim # 0 /\ list_has(w1.q.processing)) => drain_checked(w1, lim)

\* C37: the drain of processing sends an item to immediate exactly when its
\* rel equals the counter, with location IMMEDIATE, size_q decremented and
\* size_imed incremented; any other item goes back into a bin with its
\* location, its rel and all sizes unchanged.
C37_DrainStep ==
    pos = "loop" =>
        LET w0 == priorityq_advance_immediates(World)
        IN (w0.q.size_q # 0 /\ list_has(w0.q.processing)) =>
              drain_checked(w0, get_high_index32(w0.q.size_q) + 1)

\* Number of nodes the call of priorityq_advance_immediates on w links into
\* done.
imed_moved(w) ==
    list_count(priorityq_advance_immediates(w).q.done) - list_count(w.q.done)

\* C38: while immediate holds an item, a step of the immediate drain moves
\* nothing only when counter_imed is 0, and then sets counter_imed to
\* high_bit_index(size_imed) + 1, at least 1, so that of two consecutive
\* steps one moves an item to done; every step moves at most two items.
C38_NeverIdlesTwice ==
    pos = "loop" =>
        LET w1 == priorityq_advance_immediates(World)
        IN /\ imed_moved(World) <= 2
           /\ list_has(q.immediate) =>
                 IF q.counter_imed # 0
                 THEN imed_moved(World) >= 1
                 ELSE /\ imed_moved(World) = 0
                      /\ w1.q.counter_imed >= 1
                      /\ list_has(w1.q.immediate)
                      /\ imed_moved(priorityq_advance_priority_queue(w1)) >= 1

\* The call of priorityq_advance_immediates on w calls list_dq_quick on
\* immediate while immediate is empty, at its first or at its second pop.
imed_pops_empty(w) ==
    /\ w.q.size_imed # 0
    /\ w.q.counter_imed # 0
    /\ LET w1 == imed_to_done(w)
       IN \/ ~list_has(w.q.immediate)
          \/ /\ U32Lt(w1.q.size_done, w1.q.size_imed)
             /\ w1.q.size_imed % 2 = 0
             /\ ~list_has(w1.q.immediate)

\* The do/while of priorityq_advance_priority_queue, started from w with
\* limit_q, calls list_dq_quick on processing while processing is empty.
RECURSIVE drain_pops_empty(_, _)
drain_pops_empty(w, limit_q) ==
    LET w1 == drain_one(w)
        lim == limit_q - 1
    IN \/ ~list_has(w.q.processing)
       \/ /\ lim # 0
          /\ list_has(w1.q.processing)
          /\ drain_pops_empty(w1, lim)

\* C39: list_dq_quick is never called on an empty list: whenever the
\* immediate drain pops from immediate, at the first or the second pop of a
\* step, immediate holds an item, whenever the drain of processing pops,
\* processing holds an item, and no list head is ever linked into a list.
C39_QuickPopNonEmpty ==
    /\ pos # "corrupt"
    /\ pos = "loop" =>
          LET w0 == priorityq_advance_immediates(World)
          IN /\ ~imed_pops_empty(World)
             /\ ~Corrupted(w0.q)
             /\ (w0.q.size_q # 0 /\ list_has(w0.q.processing)) =>
                   ~drain_pops_empty(w0, get_high_index32(w0.q.size_q) + 1)

====
